---- MODULE Spec2Model ----
(***************************************************************************)
(* A model of src/main.js: the pipeline that lists, downloads and stages   *)
(* the book's code and image files, merges the chapter texts, renders the  *)
(* result in a headless browser and captures it as a PDF.                  *)
(*                                                                         *)
(* One action is one turn of the event loop: the settling of an            *)
(* asynchronous operation together with every continuation (microtask)     *)
(* that runs because of it.                                                *)
(*                                                                         *)
(* Texts are sequences of tokens.  The tokens are the pieces of text the   *)
(* regular expressions of mergeFiles tell apart:                           *)
(*    "I" the literal image::      "P" the literal images/                 *)
(*    "[" and "]"                  "n" a line break                        *)
(*    "x" any other character                                              *)
(***************************************************************************)
EXTENDS Naturals, Sequences, FiniteSets, TLC

\* Bounds of the model.
MaxFiles == 2
MaxChapters == 2
MaxImgs == 2
MaxLen == 5

VARIABLES
    pc,            \* the await main (or saveAsPDF, called by main) is suspended at
    outcome,       \* "running", "success" (line 261), "caught" (line 263), "crashed"
    unhandled,     \* a promise was rejected while no handler was attached to it
    tempDir,       \* TEMP_DIR exists
    subdir,        \* [cat -> TEMP_DIR/<cat> exists]
    disk,          \* [cat -> [file name -> content]]: the files under TEMP_DIR/<cat>
    mergedFile,    \* <<text>> when TEMP_DIR/merged.adoc holds text, <<>> when absent
    list,          \* [folder -> state of the fetchRepoContents(folder) call]
    files,         \* [cat -> number of entries the listing of cat returned]
    op,            \* [cat -> state of the createCodeFiles / createImageFiles promise]
    dl,            \* [cat -> [index -> state of the downloadFile promise]]
    contents,      \* [cat -> the array Promise.all(downloadPromises) builds]
    wr,            \* [cat -> [index -> state of the outputFile / writeFile promise]]
    chapterFiles,  \* the array getChapterFiles resolved to
    chapDl,        \* [index -> state of the chapter's downloadFile promise]
    chapVal,       \* [index -> the text the chapter's downloadFile promise resolved to]
    chapContents,  \* the array Promise.all(downloadPromises) builds in mergeFiles
    merged,        \* mergeFiles's return value, saveAsPDF's argument
    htmlRendered,  \* asciidoctor.convertFile has returned
    browser,       \* "none", "open", "closed"
    pageLoaded,    \* page.setContent has resolved
    mathReady,     \* the waitForFunction of line 181: "none", "ok", "failed"
    typeset,       \* the evaluate of line 183: "none", "ok", "failed"
    logged,        \* the error lines saveAsPDF's own handlers printed
    imgPhase,      \* the evaluate of line 187: "none", "sent", "waiting", "resolved"
    images,        \* document.images, as 1..images
    pendingImages, \* the images with !img.complete when the page function ran
    fired,         \* [image -> "none", "load" or "error": the event it has fired]
    loadedImages,  \* the counter of line 198
    pdfWritten,    \* page.pdf has written OUTPUT_FILE
    closeSt,       \* browser.close(): "idle", "pending", "done", "failed"
    removeSt,      \* fs.remove(TEMP_DIR): "idle", "pending", "done", "failed"
    rwIn,          \* a chapter text given to the rewrite of lines 95-101
    rwOut,         \* what the rewrite made of rwIn
    rwDone         \* the rewrite has been applied to rwIn

vars == <<pc, outcome, unhandled, tempDir, subdir, disk, mergedFile, list, files,
          op, dl, contents, wr, chapterFiles, chapDl, chapVal, chapContents,
          merged, htmlRendered, browser, pageLoaded, mathReady, typeset, logged,
          imgPhase, images, pendingImages, fired, loadedImages, pdfWritten,
          closeSt, removeSt, rwIn, rwOut, rwDone>>

mainVars == <<pc, outcome, unhandled>>
fsVars == <<tempDir, subdir, disk, mergedFile>>
stageVars == <<list, files, op, dl, contents, wr>>
mergeVars == <<chapterFiles, chapDl, chapVal, chapContents, merged>>
pageVars == <<htmlRendered, browser, pageLoaded, mathReady, typeset, logged>>
imgVars == <<imgPhase, images, pendingImages, fired, loadedImages>>
endVars == <<pdfWritten, closeSt, removeSt>>
rwVars == <<rwIn, rwOut, rwDone>>

----------------------------------------------------------------------------
(* Texts *)

Tokens == {"I", "P", "[", "]", "n", "x"}

\* The first position >= i of s that holds token t with no line break before
\* it (a "." of the regular expression matches no line break); 0 when none.
RECURSIVE FirstOnLine(_, _, _)
FirstOnLine(s, i, t) ==
    IF i > Len(s) THEN 0
    ELSE IF s[i] = t THEN i
    ELSE IF s[i] = "n" THEN 0
    ELSE FirstOnLine(s, i + 1, t)

\* /image::(.*?)\[(.*?)\]/ tried at position i: <<j, k>>, the positions of the
\* "[" and the "]" that close the two lazy groups, or <<0, 0>> when it does not
\* match there.
MatchAt(s, i) ==
    IF i > Len(s) \/ s[i] # "I" THEN <<0, 0>>
    ELSE LET j == FirstOnLine(s, i + 1, "[")
             k == IF j = 0 THEN 0 ELSE FirstOnLine(s, j + 1, "]")
         IN  IF j = 0 \/ k = 0 THEN <<0, 0>> ELSE <<j, k>>

\* imagePath.replace(/^images\//, '') with no strip at all.
CleanImagePath_Mut(imagePath) == imagePath

\* imagePath.replace(/^images\//, '')
CleanImagePath(imagePath) ==
    IF Len(imagePath) > 0 /\ imagePath[1] = "P" THEN Tail(imagePath) ELSE imagePath

\* The callback of content.replace: `image::${cleanImagePath}[${alt}]`
Replacement(imagePath, alt) ==
    <<"I">> \o CleanImagePath(imagePath) \o <<"[">> \o alt \o <<"]">>

\* content.replace(/image::(.*?)\[(.*?)\]/g, callback) from position i on:
\* the matches are taken leftmost first and do not overlap.
RECURSIVE ReplaceFrom(_, _)
ReplaceFrom(s, i) ==
    IF i > Len(s) THEN <<>>
    ELSE LET m == MatchAt(s, i)
         IN  IF m[1] = 0
             THEN <<s[i]>> \o ReplaceFrom(s, i + 1)
             ELSE Replacement(SubSeq(s, i + 1, m[1] - 1), SubSeq(s, m[1] + 1, m[2] - 1))
                  \o ReplaceFrom(s, m[2] + 1)

RewriteImages(content) == ReplaceFrom(content, 1)

\* contents.join('\n\n') that puts the separator after every element.
RECURSIVE join_Mut(_)
join_Mut(texts) ==
    IF Len(texts) = 0 THEN <<>>
    ELSE Head(texts) \o <<"n", "n">> \o join_Mut(Tail(texts))

\* contents.join('\n\n')
RECURSIVE join(_)
join(texts) ==
    IF Len(texts) = 0 THEN <<>>
    ELSE IF Len(texts) = 1 THEN Head(texts)
    ELSE Head(texts) \o <<"n", "n">> \o join(Tail(texts))

\* Every text of at most n tokens.
RECURSIVE TextsUpTo(_)
TextsUpTo(n) ==
    IF n = 0 THEN {<<>>}
    ELSE LET shorter == TextsUpTo(n - 1)
         IN  shorter \cup {Append(t, c) : t \in {u \in shorter : Len(u) = n - 1}, c \in Tokens}

\* The texts a chapter download resolves to in the pipeline.
ChapterTexts ==
    { <<"x", "n", "x">>,
      <<"I", "P", "x", "[", "x", "]">> }

\* An element of the array of mergeFiles that no download has filled yet.
NoText == <<"?">>

----------------------------------------------------------------------------
(* Remote files, promises and the arrays Promise.all builds *)

Cats == {"code", "images"}
Folders == {"code", "images", "root"}

\* The entry a listing of folder cat holds at index i, as getCodeFiles and
\* getImageFiles map it: {name, downloadUrl}.
RemoteFile(cat, i) == [name |-> i, downloadUrl |-> <<cat, i>>]

\* downloadFile(fileUrl, responseType): the body found at fileUrl, as a Buffer
\* for 'arraybuffer' and as a string otherwise.
downloadFile(fileUrl, responseType) ==
    [of |-> fileUrl, as |-> IF responseType = "arraybuffer" THEN "buffer" ELSE "string"]

\* createCodeFiles downloads with the default responseType, createImageFiles
\* with 'arraybuffer'.
ResponseType(cat) == IF cat = "images" THEN "arraybuffer" ELSE "utf8"

\* An element of a contents array that no download has filled yet.
NoContent == [of |-> <<"", 0>>, as |-> "hole"]

\* Promise.all filling its array in the order the downloads complete.
allContents_Mut(values, index, value) ==
    LET free == {k \in DOMAIN values : values[k] = NoContent}
        first == IF free = {} THEN index
                 ELSE CHOOSE k \in free : \A m \in free : k <= m
    IN  [values EXCEPT ![first] = value]

\* Promise.all(downloadPromises) of a stager: the value of the promise at
\* index lands at index of the array, which savePromises reads as contents[index].
allContents(values, index, value) == [values EXCEPT ![index] = value]

\* Promise.all filling its array in the order the downloads complete.
allTexts_Mut(values, index, value) ==
    LET free == {k \in DOMAIN values : values[k] = NoText}
        first == IF free = {} THEN index
                 ELSE CHOOSE k \in free : \A m \in free : k <= m
    IN  [values EXCEPT ![first] = value]

\* Promise.all(downloadPromises) of mergeFiles.
allTexts(values, index, value) == [values EXCEPT ![index] = value]

\* A Promise.all that waits for every download and overlooks the failed ones.
afterDownloads_Mut(statuses) ==
    IF \A i \in DOMAIN statuses : statuses[i] # "pending" THEN "ensureDir"
    ELSE "downloading"

\* Where a stager stands given its downloads: Promise.all rejects with the
\* first failure, and resolves (the stager goes on to ensureDir) when every
\* download has resolved.
afterDownloads(statuses) ==
    IF \E i \in DOMAIN statuses : statuses[i] = "failed" THEN "rejected"
    ELSE IF \A i \in DOMAIN statuses : statuses[i] = "done" THEN "ensureDir"
    ELSE "downloading"

\* Where a stager stands given its writes (Promise.all(savePromises)).
afterWrites(statuses) ==
    IF \E i \in DOMAIN statuses : statuses[i] = "failed" THEN "rejected"
    ELSE IF \A i \in DOMAIN statuses : statuses[i] = "done" THEN "fulfilled"
    ELSE "writing"

\* The state a stager is in once createCodeFiles / createImageFiles has been
\* called with n files: it has started its n downloads.
Launched(n) == afterDownloads([i \in 1..n |-> "pending"])

\* The file f with the entry k |-> v written.
Put(f, k, v) == [x \in (DOMAIN f) \cup {k} |-> IF x = k THEN v ELSE f[x]]

\* The names a root listing entry can have, by what getChapterFiles tests.
EntryNames == [startsWithCh : BOOLEAN, endsWithAdoc : BOOLEAN]

\* The root listings: the entry at index i has download_url i.
RootListings ==
    UNION { [1..n -> EntryNames] : n \in 0..MaxChapters }

\* getChapterFiles: the entries whose name starts with 'ch' and ends with
\* '.adoc', in listing order, as {name, downloadUrl}.
RECURSIVE ChapterFilter(_, _)
ChapterFilter(listing, i) ==
    IF i > Len(listing) THEN <<>>
    ELSE IF listing[i].startsWithCh /\ listing[i].endsWithAdoc
         THEN <<[name |-> listing[i], downloadUrl |-> i]>> \o ChapterFilter(listing, i + 1)
         ELSE ChapterFilter(listing, i + 1)

getChapterFiles(listing) == ChapterFilter(listing, 1)

\* mergeFiles's return value from the array of downloaded texts.
mergeFiles(texts) == join([i \in 1..Len(texts) |-> RewriteImages(texts[i])])

----------------------------------------------------------------------------
(* main's reactions *)

\* main has called Promise.all (line 250), which attaches a handler to each
\* of the three promises.
Joined == pc \notin {"ensureTemp", "listCode", "listImages"}

\* A Promise.all of main that does not wait for the image stager.
JoinReady_Mut(o, l) == o["code"] = "fulfilled" /\ l["root"] = "ok"

\* The Promise.all of lines 250-254 resolves.
JoinReady(o, l) ==
    o["code"] = "fulfilled" /\ o["images"] = "fulfilled" /\ l["root"] = "ok"

\* main calls mergeFiles(chFiles), which starts every chapter download; with
\* no chapter it returns '' at once and main calls saveAsPDF, which starts
\* writing merged.adoc.
StartMerge(chFiles) ==
    /\ chapDl' = [i \in 1..Len(chFiles) |-> "pending"]
    /\ chapVal' = [i \in 1..Len(chFiles) |-> NoText]
    /\ chapContents' = [i \in 1..Len(chFiles) |-> NoText]
    /\ IF Len(chFiles) = 0
       THEN merged' = mergeFiles(<<>>) /\ pc' = "writeMerged"
       ELSE merged' = merged /\ pc' = "merge"
    /\ UNCHANGED <<outcome, unhandled>>

\* What main does when one of the three operations of lines 251-253 settles:
\* newOp and newList are the states after the event, newFiles the chapter
\* files known after it, rejected says that the event is a rejection and
\* handled that a handler was attached to the rejected promise.  A promise
\* rejected with no handler attached is an unhandled rejection, on which the
\* runtime either ends the process or prints a warning and goes on.
MainReacts(newOp, newList, newFiles, rejected, handled) ==
    IF rejected /\ ~handled
    THEN /\ unhandled' = TRUE
         /\ outcome' \in {outcome, "crashed"}
         /\ UNCHANGED <<pc, chapDl, chapVal, chapContents, merged>>
    ELSE IF pc = "join" /\ outcome = "running" /\ rejected
    THEN /\ outcome' = "caught"
         /\ UNCHANGED <<pc, unhandled, chapDl, chapVal, chapContents, merged>>
    ELSE IF pc = "join" /\ outcome = "running" /\ JoinReady(newOp, newList)
    THEN StartMerge(newFiles)
    ELSE UNCHANGED <<pc, outcome, unhandled, chapDl, chapVal, chapContents, merged>>

----------------------------------------------------------------------------
(* The state after main() has run to its first await *)

InitPipeline ==
    /\ pc = "ensureTemp"
    /\ outcome = "running"
    /\ unhandled = FALSE
    /\ tempDir \in BOOLEAN
    /\ subdir = [c \in Cats |-> FALSE]
    /\ disk = [c \in Cats |-> <<>>]
    /\ mergedFile = <<>>
    /\ list = [f \in Folders |-> "idle"]
    /\ files = [c \in Cats |-> 0]
    /\ op = [c \in Cats |-> "idle"]
    /\ dl = [c \in Cats |-> <<>>]
    /\ contents = [c \in Cats |-> <<>>]
    /\ wr = [c \in Cats |-> <<>>]
    /\ chapterFiles = <<>>
    /\ chapDl = <<>>
    /\ chapVal = <<>>
    /\ chapContents = <<>>
    /\ merged = <<>>
    /\ htmlRendered = FALSE
    /\ browser = "none"
    /\ pageLoaded = FALSE
    /\ mathReady = "none"
    /\ typeset = "none"
    /\ logged = {}
    /\ imgPhase = "none"
    /\ images = 0
    /\ pendingImages = {}
    /\ fired = <<>>
    /\ loadedImages = 0
    /\ pdfWritten = FALSE
    /\ closeSt = "idle"
    /\ removeSt = "idle"

Init ==
    /\ InitPipeline
    /\ rwIn = <<>>
    /\ rwOut = <<>>
    /\ rwDone = FALSE

----------------------------------------------------------------------------
(* main up to the Promise.all of line 250 *)

\* The awaits of main and saveAsPDF whose rejection does nothing but throw
\* into main's try block.
PlainAwaits ==
    {"ensureTemp", "writeMerged", "launch", "newPage", "setViewport",
     "setJavaScriptEnabled", "setContent", "pdf"}

\* The promise main is suspended at rejects: the catch of line 262 logs it.
await_reject ==
    /\ outcome = "running"
    /\ pc \in PlainAwaits
    /\ outcome' = "caught"
    /\ UNCHANGED <<pc, unhandled, fsVars, stageVars, mergeVars, pageVars, imgVars,
                   endVars, rwVars>>

\* fs.ensureDir(TEMP_DIR) resolves; main evaluates the first element of the
\* array literal up to its await: getCodeFiles() sends the listing request.
main_ensureDir ==
    /\ outcome = "running"
    /\ pc = "ensureTemp"
    /\ tempDir' = TRUE
    /\ list' = [list EXCEPT !["code"] = "pending"]
    /\ pc' = "listCode"
    /\ UNCHANGED <<outcome, unhandled, subdir, disk, mergedFile, files, op, dl, contents,
                   wr, mergeVars, pageVars, imgVars, endVars, rwVars>>

\* The code listing arrives with n entries: main calls createCodeFiles, which
\* starts its downloads and returns its promise, and goes on to the second
\* element of the array literal: getImageFiles() sends its listing request and
\* main awaits it.  The promise of createCodeFiles has no handler yet.
getCodeFiles_resolve(n) ==
    /\ outcome = "running"
    /\ pc = "listCode"
    /\ list' = [list EXCEPT !["code"] = "ok", !["images"] = "pending"]
    /\ files' = [files EXCEPT !["code"] = n]
    /\ op' = [op EXCEPT !["code"] = Launched(n)]
    /\ dl' = [dl EXCEPT !["code"] = [i \in 1..n |-> "pending"]]
    /\ contents' = [contents EXCEPT !["code"] = [i \in 1..n |-> NoContent]]
    /\ pc' = "listImages"
    /\ UNCHANGED <<outcome, unhandled, fsVars, wr, mergeVars, pageVars, imgVars,
                   endVars, rwVars>>

\* The code listing fails: fetchRepoContents logs and rethrows, main catches.
getCodeFiles_reject ==
    /\ outcome = "running"
    /\ pc = "listCode"
    /\ list' = [list EXCEPT !["code"] = "failed"]
    /\ outcome' = "caught"
    /\ UNCHANGED <<pc, unhandled, fsVars, files, op, dl, contents, wr, mergeVars,
                   pageVars, imgVars, endVars, rwVars>>

\* The image listing arrives with n entries: main calls createImageFiles, then
\* getChapterFiles() (which sends the root listing request), then Promise.all
\* on the three promises, and awaits it.  Promise.all rejects at once when
\* the promise of createCodeFiles has rejected in the meantime.
getImageFiles_resolve(n) ==
    /\ outcome = "running"
    /\ pc = "listImages"
    /\ list' = [list EXCEPT !["images"] = "ok", !["root"] = "pending"]
    /\ files' = [files EXCEPT !["images"] = n]
    /\ op' = [op EXCEPT !["images"] = Launched(n)]
    /\ dl' = [dl EXCEPT !["images"] = [i \in 1..n |-> "pending"]]
    /\ contents' = [contents EXCEPT !["images"] = [i \in 1..n |-> NoContent]]
    /\ pc' = "join"
    /\ outcome' = IF op["code"] = "rejected" THEN "caught" ELSE "running"
    /\ UNCHANGED <<unhandled, fsVars, wr, mergeVars, pageVars, imgVars, endVars, rwVars>>

\* The image listing fails while main awaits it: main catches.  The promise
\* of createCodeFiles is left running without a handler.
getImageFiles_reject ==
    /\ outcome = "running"
    /\ pc = "listImages"
    /\ list' = [list EXCEPT !["images"] = "failed"]
    /\ outcome' = "caught"
    /\ UNCHANGED <<pc, unhandled, fsVars, files, op, dl, contents, wr, mergeVars,
                   pageVars, imgVars, endVars, rwVars>>

\* The root listing arrives: getChapterFiles resolves to the filtered entries.
getChapterFiles_resolve(listing) ==
    /\ outcome # "crashed"
    /\ list["root"] = "pending"
    /\ list' = [list EXCEPT !["root"] = "ok"]
    /\ chapterFiles' = getChapterFiles(listing)
    /\ MainReacts(op, list', chapterFiles', FALSE, TRUE)
    /\ UNCHANGED <<fsVars, files, op, dl, contents, wr, pageVars, imgVars, endVars, rwVars>>

\* The root listing fails: Promise.all rejects.
getChapterFiles_reject ==
    /\ outcome # "crashed"
    /\ list["root"] = "pending"
    /\ list' = [list EXCEPT !["root"] = "failed"]
    /\ MainReacts(op, list', chapterFiles, TRUE, TRUE)
    /\ UNCHANGED <<fsVars, files, op, dl, contents, wr, chapterFiles, pageVars, imgVars,
                   endVars, rwVars>>

----------------------------------------------------------------------------
(* createCodeFiles and createImageFiles *)

\* The download at index i of stager cat resolves.
stager_download_resolve(cat, i) ==
    /\ outcome # "crashed"
    /\ i \in DOMAIN dl[cat]
    /\ dl[cat][i] = "pending"
    /\ LET newDl == [dl[cat] EXCEPT ![i] = "done"]
           value == downloadFile(RemoteFile(cat, i).downloadUrl, ResponseType(cat))
       IN  /\ dl' = [dl EXCEPT ![cat] = newDl]
           /\ contents' = [contents EXCEPT ![cat] = allContents(@, i, value)]
           /\ op' = [op EXCEPT ![cat] =
                        IF @ = "downloading" THEN afterDownloads(newDl) ELSE @]
    /\ UNCHANGED <<mainVars, fsVars, list, files, wr, mergeVars, pageVars, imgVars,
                   endVars, rwVars>>

\* The download at index i of stager cat fails: downloadFile logs and
\* rethrows, Promise.all rejects, the stager's promise rejects.
stager_download_reject(cat, i) ==
    /\ outcome # "crashed"
    /\ i \in DOMAIN dl[cat]
    /\ dl[cat][i] = "pending"
    /\ LET newDl == [dl[cat] EXCEPT ![i] = "failed"]
           newOp == [op EXCEPT ![cat] =
                        IF @ = "downloading" THEN afterDownloads(newDl) ELSE @]
       IN  /\ dl' = [dl EXCEPT ![cat] = newDl]
           /\ op' = newOp
           /\ MainReacts(newOp, list, chapterFiles,
                         newOp[cat] = "rejected" /\ op[cat] # "rejected", Joined)
    /\ UNCHANGED <<fsVars, list, files, contents, wr, chapterFiles, pageVars, imgVars,
                   endVars, rwVars>>

\* fs.ensureDir of the stager's subdirectory resolves: the stager starts
\* every write.
stager_ensureDir_resolve(cat) ==
    /\ outcome # "crashed"
    /\ op[cat] = "ensureDir"
    /\ LET newWr == [i \in 1..files[cat] |-> "pending"]
           newOp == [op EXCEPT ![cat] = afterWrites(newWr)]
       IN  /\ wr' = [wr EXCEPT ![cat] = newWr]
           /\ op' = newOp
           /\ MainReacts(newOp, list, chapterFiles, FALSE, Joined)
    /\ tempDir' = TRUE
    /\ subdir' = [subdir EXCEPT ![cat] = TRUE]
    /\ UNCHANGED <<disk, mergedFile, list, files, dl, contents, chapterFiles, pageVars,
                   imgVars, endVars, rwVars>>

\* fs.ensureDir of the stager's subdirectory fails.
stager_ensureDir_reject(cat) ==
    /\ outcome # "crashed"
    /\ op[cat] = "ensureDir"
    /\ LET newOp == [op EXCEPT ![cat] = "rejected"]
       IN  /\ op' = newOp
           /\ MainReacts(newOp, list, chapterFiles, TRUE, Joined)
    /\ UNCHANGED <<fsVars, list, files, dl, contents, wr, chapterFiles, pageVars, imgVars,
                   endVars, rwVars>>

\* The write at index i of stager cat resolves: the file named files[i].name
\* holds contents[i].  fs.outputFile (code) makes the directories it needs;
\* fs.writeFile (images) needs the directory to exist.
stager_write_resolve(cat, i) ==
    /\ outcome # "crashed"
    /\ i \in DOMAIN wr[cat]
    /\ wr[cat][i] = "pending"
    /\ cat = "images" => subdir[cat]
    /\ LET newWr == [wr[cat] EXCEPT ![i] = "done"]
           newOp == [op EXCEPT ![cat] = IF @ = "writing" THEN afterWrites(newWr) ELSE @]
       IN  /\ wr' = [wr EXCEPT ![cat] = newWr]
           /\ op' = newOp
           /\ MainReacts(newOp, list, chapterFiles, FALSE, Joined)
    /\ disk' = [disk EXCEPT ![cat] = Put(@, RemoteFile(cat, i).name, contents[cat][i])]
    /\ tempDir' = TRUE
    /\ subdir' = [subdir EXCEPT ![cat] = TRUE]
    /\ UNCHANGED <<mergedFile, list, files, dl, contents, chapterFiles, pageVars, imgVars,
                   endVars, rwVars>>

\* The write at index i of stager cat fails.
stager_write_reject(cat, i) ==
    /\ outcome # "crashed"
    /\ i \in DOMAIN wr[cat]
    /\ wr[cat][i] = "pending"
    /\ LET newWr == [wr[cat] EXCEPT ![i] = "failed"]
           newOp == [op EXCEPT ![cat] = IF @ = "writing" THEN afterWrites(newWr) ELSE @]
       IN  /\ wr' = [wr EXCEPT ![cat] = newWr]
           /\ op' = newOp
           /\ MainReacts(newOp, list, chapterFiles,
                         newOp[cat] = "rejected" /\ op[cat] # "rejected", Joined)
    /\ UNCHANGED <<fsVars, list, files, dl, contents, chapterFiles, pageVars, imgVars,
                   endVars, rwVars>>

----------------------------------------------------------------------------
(* mergeFiles *)

\* The download of chapter i resolves to text.  With the last one Promise.all
\* resolves, mergeFiles rewrites and joins the texts and returns, and main
\* calls saveAsPDF, which starts writing merged.adoc.
merge_download_resolve(i, text) ==
    /\ outcome # "crashed"
    /\ i \in DOMAIN chapDl
    /\ chapDl[i] = "pending"
    /\ chapDl' = [chapDl EXCEPT ![i] = "done"]
    /\ chapVal' = [chapVal EXCEPT ![i] = text]
    /\ chapContents' = allTexts(chapContents, i, text)
    /\ IF pc = "merge" /\ outcome = "running" /\ \A k \in DOMAIN chapDl' : chapDl'[k] = "done"
       THEN merged' = mergeFiles(chapContents') /\ pc' = "writeMerged"
       ELSE UNCHANGED <<merged, pc>>
    /\ UNCHANGED <<outcome, unhandled, fsVars, stageVars, chapterFiles, pageVars, imgVars,
                   endVars, rwVars>>

\* The download of chapter i fails: mergeFiles rejects and main catches.
merge_download_reject(i) ==
    /\ outcome # "crashed"
    /\ i \in DOMAIN chapDl
    /\ chapDl[i] = "pending"
    /\ chapDl' = [chapDl EXCEPT ![i] = "failed"]
    /\ outcome' = IF pc = "merge" /\ outcome = "running" THEN "caught" ELSE outcome
    /\ UNCHANGED <<pc, unhandled, fsVars, stageVars, chapterFiles, chapVal, chapContents,
                   merged, pageVars, imgVars, endVars, rwVars>>

----------------------------------------------------------------------------
(* saveAsPDF up to the image wait *)

\* fs.outputFile(merged.adoc) resolves; asciidoctor.convertFile runs in the
\* same turn and returns the HTML; puppeteer.launch is called.
outputFile_resolve ==
    /\ outcome = "running"
    /\ pc = "writeMerged"
    /\ mergedFile' = <<merged>>
    /\ tempDir' = TRUE
    /\ htmlRendered' = TRUE
    /\ pc' = "launch"
    /\ UNCHANGED <<outcome, unhandled, subdir, disk, stageVars, mergeVars, browser,
                   pageLoaded, mathReady, typeset, logged, imgVars, endVars, rwVars>>

\* fs.outputFile(merged.adoc) resolves and asciidoctor.convertFile throws.
convertFile_throw ==
    /\ outcome = "running"
    /\ pc = "writeMerged"
    /\ mergedFile' = <<merged>>
    /\ tempDir' = TRUE
    /\ outcome' = "caught"
    /\ UNCHANGED <<pc, unhandled, subdir, disk, stageVars, mergeVars, pageVars, imgVars,
                   endVars, rwVars>>

\* puppeteer.launch resolves; browser.newPage is called.
launch_resolve ==
    /\ outcome = "running"
    /\ pc = "launch"
    /\ browser' = "open"
    /\ pc' = "newPage"
    /\ UNCHANGED <<outcome, unhandled, fsVars, stageVars, mergeVars, htmlRendered,
                   pageLoaded, mathReady, typeset, logged, imgVars, endVars, rwVars>>

\* The order of the awaits between newPage and the first MathJax wait.
AfterStep(p) ==
    CASE p = "newPage" -> "setViewport"
      [] p = "setViewport" -> "setJavaScriptEnabled"
      [] p = "setJavaScriptEnabled" -> "setContent"
      [] p = "setContent" -> "mathReady"

\* browser.newPage, page.setViewport, page.setJavaScriptEnabled or
\* page.setContent resolves and the next call is made; after setContent the
\* page is loaded and page.waitForFunction is called.
page_step_resolve ==
    /\ outcome = "running"
    /\ pc \in {"newPage", "setViewport", "setJavaScriptEnabled", "setContent"}
    /\ pc' = AfterStep(pc)
    /\ pageLoaded' = (pc = "setContent")
    /\ UNCHANGED <<outcome, unhandled, fsVars, stageVars, mergeVars, htmlRendered,
                   browser, mathReady, typeset, logged, imgVars, endVars, rwVars>>

\* A rejected waitForFunction that is not caught in saveAsPDF.
waitForFunction_reject_Mut ==
    /\ outcome = "running"
    /\ pc = "mathReady"
    /\ mathReady' = "failed"
    /\ outcome' = "caught"
    /\ UNCHANGED <<pc, unhandled, fsVars, stageVars, mergeVars, htmlRendered, browser,
                   pageLoaded, typeset, logged, imgVars, endVars, rwVars>>

\* page.waitForFunction resolves: MathJax is there; the typeset pass is asked for.
waitForFunction_resolve ==
    /\ outcome = "running"
    /\ pc = "mathReady"
    /\ mathReady' = "ok"
    /\ pc' = "typeset"
    /\ UNCHANGED <<outcome, unhandled, fsVars, stageVars, mergeVars, htmlRendered,
                   browser, pageLoaded, typeset, logged, imgVars, endVars, rwVars>>

\* page.waitForFunction rejects: the .catch of line 182 logs the error and
\* the await resolves; the typeset pass is asked for all the same.
waitForFunction_reject ==
    /\ outcome = "running"
    /\ pc = "mathReady"
    /\ mathReady' = "failed"
    /\ logged' = logged \cup {"MathJax loading error"}
    /\ pc' = "typeset"
    /\ UNCHANGED <<outcome, unhandled, fsVars, stageVars, mergeVars, htmlRendered,
                   browser, pageLoaded, typeset, imgVars, endVars, rwVars>>

\* The evaluate of MathJax.typesetPromise() resolves; the evaluate of the
\* image wait is sent to the page.
typeset_resolve ==
    /\ outcome = "running"
    /\ pc = "typeset"
    /\ typeset' = "ok"
    /\ pc' = "imageWait"
    /\ imgPhase' = "sent"
    /\ UNCHANGED <<outcome, unhandled, fsVars, stageVars, mergeVars, htmlRendered,
                   browser, pageLoaded, mathReady, logged, images, pendingImages, fired,
                   loadedImages, endVars, rwVars>>

\* The evaluate of MathJax.typesetPromise() rejects: the .catch of line 184
\* logs the error; the evaluate of the image wait is sent to the page.
typeset_reject ==
    /\ outcome = "running"
    /\ pc = "typeset"
    /\ typeset' = "failed"
    /\ logged' = logged \cup {"MathJax typesetting error"}
    /\ pc' = "imageWait"
    /\ imgPhase' = "sent"
    /\ UNCHANGED <<outcome, unhandled, fsVars, stageVars, mergeVars, htmlRendered,
                   browser, pageLoaded, mathReady, images, pendingImages, fired,
                   loadedImages, endVars, rwVars>>

----------------------------------------------------------------------------
(* The image wait (lines 187-216) *)

\* imageLoaded: loadedImages++
imageLoaded(count) == count + 1

\* An 'error' listener that logs and does not count the image.
onImageError_Mut(count) == count

\* The 'error' listener of lines 210-213: it logs and calls imageLoaded.
onImageError(count) == imageLoaded(count)

\* The test of line 202, made in imageLoaded after the increment.
AllImagesLoaded(count, pending) == count = Cardinality(pending)

\* The page function runs in the page, which holds n images of which those
\* of pend are not complete: with none pending it resolves at once, else it
\* adds its listeners to the pending images.
imageWait_run(n, pend) ==
    /\ outcome # "crashed"
    /\ imgPhase = "sent"
    /\ images' = n
    /\ pendingImages' = pend
    /\ fired' = [i \in 1..n |-> "none"]
    /\ loadedImages' = 0
    /\ imgPhase' = IF pend = {} THEN "resolved" ELSE "waiting"
    /\ UNCHANGED <<mainVars, fsVars, stageVars, mergeVars, pageVars, endVars, rwVars>>

\* A pending image fires 'load' (an image fires one of 'load' and 'error',
\* once, for the one fetch of its src).
image_load(i) ==
    /\ outcome # "crashed"
    /\ imgPhase = "waiting"
    /\ i \in pendingImages
    /\ fired[i] = "none"
    /\ fired' = [fired EXCEPT ![i] = "load"]
    /\ loadedImages' = imageLoaded(loadedImages)
    /\ imgPhase' = IF AllImagesLoaded(loadedImages', pendingImages)
                   THEN "resolved" ELSE "waiting"
    /\ UNCHANGED <<mainVars, fsVars, stageVars, mergeVars, pageVars, images,
                   pendingImages, endVars, rwVars>>

\* A pending image fires 'error'.
image_error(i) ==
    /\ outcome # "crashed"
    /\ imgPhase = "waiting"
    /\ i \in pendingImages
    /\ fired[i] = "none"
    /\ fired' = [fired EXCEPT ![i] = "error"]
    /\ loadedImages' = onImageError(loadedImages)
    /\ imgPhase' = IF AllImagesLoaded(loadedImages', pendingImages)
                   THEN "resolved" ELSE "waiting"
    /\ logged' = logged \cup {"Failed to load image"}
    /\ UNCHANGED <<mainVars, fsVars, stageVars, mergeVars, htmlRendered, browser,
                   pageLoaded, mathReady, typeset, images, pendingImages, endVars, rwVars>>

\* The evaluate of the image wait resolves in main: page.pdf is called.
imageWait_resolve ==
    /\ outcome = "running"
    /\ pc = "imageWait"
    /\ imgPhase = "resolved"
    /\ pc' = "pdf"
    /\ UNCHANGED <<outcome, unhandled, fsVars, stageVars, mergeVars, pageVars, imgVars,
                   endVars, rwVars>>

\* The evaluate of the image wait rejects (the page or the connection to it
\* is lost, or the protocol call times out): no .catch follows it, so it
\* throws into main's try block.
imageWait_reject ==
    /\ outcome = "running"
    /\ pc = "imageWait"
    /\ outcome' = "caught"
    /\ UNCHANGED <<pc, unhandled, fsVars, stageVars, mergeVars, pageVars, imgVars,
                   endVars, rwVars>>

----------------------------------------------------------------------------
(* PDF capture and cleanup (lines 218-238) *)

\* page.pdf resolves: OUTPUT_FILE is written; browser.close() and
\* fs.remove(TEMP_DIR) are both called and awaited together.
page_pdf_resolve ==
    /\ outcome = "running"
    /\ pc = "pdf"
    /\ pdfWritten' = TRUE
    /\ closeSt' = "pending"
    /\ removeSt' = "pending"
    /\ pc' = "cleanup"
    /\ UNCHANGED <<outcome, unhandled, fsVars, stageVars, mergeVars, pageVars, imgVars,
                   rwVars>>

\* A cleanup that awaits browser.close() only.
cleanupDone_Mut(closed, removed) == closed = "done"

\* The Promise.all of lines 234-237 resolves.
cleanupDone(closed, removed) == closed = "done" /\ removed = "done"

\* What saveAsPDF and main do when one of the two cleanup promises settles.
AfterCleanup(closed, removed) ==
    IF pc = "cleanup" /\ outcome = "running" /\ "failed" \in {closed, removed}
    THEN outcome' = "caught" /\ pc' = pc
    ELSE IF pc = "cleanup" /\ outcome = "running" /\ cleanupDone(closed, removed)
    THEN outcome' = "success" /\ pc' = "done"
    ELSE UNCHANGED <<outcome, pc>>

\* browser.close() resolves.
close_resolve ==
    /\ outcome # "crashed"
    /\ closeSt = "pending"
    /\ closeSt' = "done"
    /\ browser' = "closed"
    /\ AfterCleanup(closeSt', removeSt)
    /\ UNCHANGED <<unhandled, fsVars, stageVars, mergeVars, htmlRendered, pageLoaded,
                   mathReady, typeset, logged, imgVars, pdfWritten, removeSt, rwVars>>

\* browser.close() rejects.
close_reject ==
    /\ outcome # "crashed"
    /\ closeSt = "pending"
    /\ closeSt' = "failed"
    /\ AfterCleanup(closeSt', removeSt)
    /\ UNCHANGED <<unhandled, fsVars, stageVars, mergeVars, pageVars, imgVars,
                   pdfWritten, removeSt, rwVars>>

\* fs.remove(TEMP_DIR) resolves: the directory and all it holds are gone.
remove_resolve ==
    /\ outcome # "crashed"
    /\ removeSt = "pending"
    /\ removeSt' = "done"
    /\ tempDir' = FALSE
    /\ subdir' = [c \in Cats |-> FALSE]
    /\ disk' = [c \in Cats |-> <<>>]
    /\ mergedFile' = <<>>
    /\ AfterCleanup(closeSt, removeSt')
    /\ UNCHANGED <<unhandled, stageVars, mergeVars, pageVars, imgVars, pdfWritten,
                   closeSt, rwVars>>

\* fs.remove(TEMP_DIR) rejects.
remove_reject ==
    /\ outcome # "crashed"
    /\ removeSt = "pending"
    /\ removeSt' = "failed"
    /\ AfterCleanup(closeSt, removeSt')
    /\ UNCHANGED <<unhandled, fsVars, stageVars, mergeVars, pageVars, imgVars,
                   pdfWritten, closeSt, rwVars>>

----------------------------------------------------------------------------
(* The pipeline *)

Next ==
    \/ await_reject
    \/ main_ensureDir
    \/ \E n \in 0..MaxFiles : getCodeFiles_resolve(n)
    \/ getCodeFiles_reject
    \/ \E n \in 0..MaxFiles : getImageFiles_resolve(n)
    \/ getImageFiles_reject
    \/ \E listing \in RootListings : getChapterFiles_resolve(listing)
    \/ getChapterFiles_reject
    \/ \E cat \in Cats, i \in 1..MaxFiles : stager_download_resolve(cat, i)
    \/ \E cat \in Cats, i \in 1..MaxFiles : stager_download_reject(cat, i)
    \/ \E cat \in Cats : stager_ensureDir_resolve(cat)
    \/ \E cat \in Cats : stager_ensureDir_reject(cat)
    \/ \E cat \in Cats, i \in 1..MaxFiles : stager_write_resolve(cat, i)
    \/ \E cat \in Cats, i \in 1..MaxFiles : stager_write_reject(cat, i)
    \/ \E i \in 1..MaxChapters, text \in ChapterTexts : merge_download_resolve(i, text)
    \/ \E i \in 1..MaxChapters : merge_download_reject(i)
    \/ outputFile_resolve
    \/ convertFile_throw
    \/ launch_resolve
    \/ page_step_resolve
    \/ waitForFunction_resolve
    \/ waitForFunction_reject
    \/ typeset_resolve
    \/ typeset_reject
    \/ \E n \in 0..MaxImgs : \E pend \in SUBSET (1..n) : imageWait_run(n, pend)
    \/ \E i \in 1..MaxImgs : image_load(i)
    \/ \E i \in 1..MaxImgs : image_error(i)
    \/ imageWait_resolve
    \/ imageWait_reject
    \/ page_pdf_resolve
    \/ close_resolve
    \/ close_reject
    \/ remove_resolve
    \/ remove_reject

Spec == Init /\ [][Next]_vars

----------------------------------------------------------------------------
(* The rewrite of mergeFiles on every short text *)

InitRewrite ==
    /\ InitPipeline
    /\ rwIn \in TextsUpTo(MaxLen)
    /\ rwOut = <<>>
    /\ rwDone = FALSE

\* mergeFiles on the one chapter text rwIn.
rewrite_apply ==
    /\ ~rwDone
    /\ rwOut' = mergeFiles(<<rwIn>>)
    /\ rwDone' = TRUE
    /\ UNCHANGED <<rwIn, mainVars, fsVars, stageVars, mergeVars, pageVars, imgVars, endVars>>

NextRewrite == rewrite_apply

SpecRewrite == InitRewrite /\ [][NextRewrite]_vars

----------------------------------------------------------------------------
(* Claims C1 to C5 *)

\* mergeFiles has returned to main.
MergeReturned == pc \notin {"ensureTemp", "listCode", "listImages", "join", "merge"}

\* The length of the rewritten text of chapter i.
RewrittenLen(i) == Len(RewriteImages(chapVal[i]))

\* Where the rewritten text of chapter i starts in a document that holds the
\* rewritten chapters in listing order with a two-line-break separator.
RECURSIVE ChapterStart(_)
ChapterStart(i) ==
    IF i = 1 THEN 1 ELSE ChapterStart(i - 1) + RewrittenLen(i - 1) + 2

\* C1: whatever order the chapter downloads complete in, mergeFiles returns
\* the rewritten texts of the N chapters in listing order, with exactly one
\* "\n\n" between neighbours and none before the first or after the last;
\* with N = 0 it returns the empty string without waiting for anything and
\* main goes on to saveAsPDF.
C1_MergedInListingOrder ==
    /\ pc = "merge" => Len(chapterFiles) > 0
    /\ MergeReturned =>
         LET N == Len(chapterFiles)
         IN  /\ Len(chapVal) = N
             /\ N = 0 => merged = <<>>
             /\ N > 0 => Len(merged) = ChapterStart(N) + RewrittenLen(N) - 1
             /\ \A i \in 1..N :
                  SubSeq(merged, ChapterStart(i), ChapterStart(i) + RewrittenLen(i) - 1)
                    = RewriteImages(chapVal[i])
             /\ \A i \in 1..(N - 1) :
                  SubSeq(merged, ChapterStart(i) + RewrittenLen(i),
                         ChapterStart(i) + RewrittenLen(i) + 1) = <<"n", "n">>

\* A run that merged two chapters with different texts and ended well.
C1_Witness ==
    /\ outcome = "success"
    /\ Len(chapterFiles) = 2
    /\ chapVal[1] # chapVal[2]

\* The directives of s as the global regular expression finds them, left to
\* right and not overlapping: <<i, j, k>> are the positions of image::, of
\* the "[" and of the "]".
RECURSIVE Directives(_, _)
Directives(s, i) ==
    IF i > Len(s) THEN <<>>
    ELSE LET m == MatchAt(s, i)
         IN  IF m[1] = 0 THEN Directives(s, i + 1)
             ELSE << <<i, m[1], m[2]>> >> \o Directives(s, m[2] + 1)

PathOf(s, d) == SubSeq(s, d[1] + 1, d[2] - 1)
AltOf(s, d) == SubSeq(s, d[2] + 1, d[3] - 1)
StartsWithImages(path) == Len(path) > 0 /\ path[1] = "P"

\* The text of s between its directive number m and the next one (m = 0:
\* before the first; m = the number of directives: after the last).
GapAfter(s, ds, m) ==
    SubSeq(s, IF m = 0 THEN 1 ELSE ds[m][3] + 1,
              IF m = Len(ds) THEN Len(s) ELSE ds[m + 1][1] - 1)

\* s holds the text t somewhere.
Holds(s, t) == \E i \in 0..Len(s) : i + Len(t) <= Len(s) /\ SubSeq(s, i + 1, i + Len(t)) = t

\* s holds a directive image::images/...[...].
HoldsPrefixedDirective(s) ==
    \E m \in 1..Len(Directives(s, 1)) : StartsWithImages(PathOf(s, Directives(s, 1)[m]))

\* C2 as claimed: every directive of a chapter text whose path begins with
\* images/ is in the merged document with that segment removed and its alt
\* unchanged, and the merged document holds no image::images/...[...] any more.
C2_NoPrefixedDirectiveLeft ==
    rwDone =>
      /\ \A m \in 1..Len(Directives(rwIn, 1)) :
           LET d == Directives(rwIn, 1)[m]
           IN  StartsWithImages(PathOf(rwIn, d)) =>
                 Holds(rwOut, <<"I">> \o Tail(PathOf(rwIn, d)) \o <<"[">>
                              \o AltOf(rwIn, d) \o <<"]">>)
      /\ ~HoldsPrefixedDirective(rwOut)

\* C2 as amended: the directives the left-to-right scan finds are kept one
\* for one; each has its alt unchanged and its path unchanged but for ONE
\* leading images/, which is removed; the text outside them is unchanged.  A
\* directive of the result begins with images/ only where the original path
\* began with images/images/.
C2_OneLeadingSegmentStripped ==
    rwDone =>
      LET a == Directives(rwIn, 1)
          b == Directives(rwOut, 1)
      IN  /\ Len(b) = Len(a)
          /\ \A m \in 1..Len(a) :
               /\ AltOf(rwOut, b[m]) = AltOf(rwIn, a[m])
               /\ PathOf(rwOut, b[m]) =
                    IF StartsWithImages(PathOf(rwIn, a[m]))
                    THEN Tail(PathOf(rwIn, a[m])) ELSE PathOf(rwIn, a[m])
               /\ StartsWithImages(PathOf(rwOut, b[m])) =>
                    /\ Len(PathOf(rwIn, a[m])) > 1
                    /\ PathOf(rwIn, a[m])[1] = "P"
                    /\ PathOf(rwIn, a[m])[2] = "P"
          /\ \A m \in 0..Len(a) : GapAfter(rwOut, b, m) = GapAfter(rwIn, a, m)

\* A text with one directive whose path begins with images/, rewritten.
C2_Witness ==
    /\ rwDone
    /\ Len(Directives(rwIn, 1)) = 1
    /\ StartsWithImages(PathOf(rwIn, Directives(rwIn, 1)[1]))
    /\ Len(rwOut) = Len(rwIn) - 1

\* C3 as claimed: no promise of the run is rejected without a handler, and
\* every error ends in main's catch.
C3_EveryErrorReachesMainCatch ==
    /\ ~unhandled
    /\ outcome # "crashed"
    /\ (\E c \in Cats : op[c] = "rejected") => (Joined => outcome = "caught")

\* PDF capture has been started.
PdfExecuted == pdfWritten \/ pc \in {"pdf", "cleanup", "done"}

\* C4: when a download of a stager has failed the stager has failed, when a
\* chapter download has failed mergeFiles has failed (main caught it at the
\* await of line 256), and in both cases page.pdf is not executed.
C4_FailedDownloadNoPdf ==
    /\ \A c \in Cats : \A i \in DOMAIN dl[c] :
         dl[c][i] = "failed" => (op[c] = "rejected" /\ ~PdfExecuted)
    /\ \A i \in DOMAIN chapDl :
         chapDl[i] = "failed" => (pc = "merge" /\ outcome = "caught" /\ ~PdfExecuted)

\* A download failed after main had joined, and main caught it.
C4_Witness ==
    /\ pc = "join"
    /\ outcome = "caught"
    /\ \E c \in Cats : \E i \in DOMAIN dl[c] : dl[c][i] = "failed"

----------------------------------------------------------------------------
(* Claims C6 to C10 *)

\* A write into TEMP_DIR is pending or still to come.
WritesToCome ==
    \/ \E c \in Cats : op[c] \in {"downloading", "ensureDir", "writing"}
    \/ \E c \in Cats : \E i \in DOMAIN wr[c] : wr[c][i] = "pending"
    \/ outcome = "running" /\ pc \in {"join", "merge", "writeMerged"}

\* C6: TEMP_DIR exists from the first step of main until it is removed; its
\* removal is issued after PDF capture, when no write into it is pending or
\* still to come; and after a successful run it does not exist.
C6_TempDirBracketsRun ==
    /\ (pc # "ensureTemp" /\ removeSt # "done") => tempDir
    /\ removeSt # "idle" => (pdfWritten /\ ~WritesToCome)
    /\ outcome = "success" => (removeSt = "done" /\ ~tempDir)

\* A successful run that staged code and images and merged a chapter.
C6_Witness ==
    /\ outcome = "success"
    /\ files["code"] > 0
    /\ files["images"] > 0
    /\ Len(chapterFiles) > 0

\* C7 as claimed: the three listings are requested in one turn (none waits
\* for another's response), and mergeFiles starts only after all three
\* operations have completed.
C7_LaunchedConcurrently ==
    /\ list["code"] # "idle" => (list["images"] # "idle" /\ list["root"] # "idle")
    /\ (MergeReturned \/ pc = "merge") => JoinReady(op, list)

\* The stage of the run, by the await main is suspended at: 0 idle, 1 staged,
\* 2 merged, 3 html-rendered, 4 page-loaded, 5 math-typeset, 6 images-loaded,
\* 7 pdf-written, 8 cleaned-up.
StageOf(p) ==
    CASE p \in {"ensureTemp", "listCode", "listImages", "join"} -> 0
      [] p = "merge" -> 1
      [] p = "writeMerged" -> 2
      [] p \in {"launch", "newPage", "setViewport", "setJavaScriptEnabled", "setContent"} -> 3
      [] p \in {"mathReady", "typeset"} -> 4
      [] p = "imageWait" -> 5
      [] p = "pdf" -> 6
      [] p = "cleanup" -> 7
      [] p = "done" -> 8

\* What has happened by each stage, and what has not happened before it.
StageFacts ==
    LET st == StageOf(pc)
    IN  /\ st >= 1 => /\ \A c \in Cats : op[c] = "fulfilled"
                      /\ \A c \in Cats : \A i \in DOMAIN wr[c] : wr[c][i] = "done"
                      /\ list["root"] = "ok"
        /\ st >= 2 => \A i \in DOMAIN chapDl : chapDl[i] = "done"
        /\ st >= 3 <=> htmlRendered
        /\ st < 3 => browser = "none"
        /\ st >= 4 <=> pageLoaded
        /\ st >= 4 => browser # "none"
        /\ st >= 5 <=> (mathReady # "none" /\ typeset # "none")
        /\ st >= 5 <=> imgPhase # "none"
        /\ st >= 6 => imgPhase = "resolved"
        /\ st >= 7 <=> pdfWritten
        /\ st >= 7 <=> (closeSt # "idle" /\ removeSt # "idle")
        /\ st < 7 => (closeSt = "idle" /\ removeSt = "idle" /\ browser # "closed")
        /\ st = 8 <=> outcome = "success"
        /\ st = 8 => (browser = "closed" /\ removeSt = "done")

\* A step of the run stays in its stage or enters the next one; the one step
\* that passes through a stage is the join with no chapter file, in which
\* mergeFiles returns in the turn it is called in.
StageStep ==
    /\ StageOf(pc') >= StageOf(pc)
    /\ StageOf(pc') > StageOf(pc) + 1 =>
         (pc = "join" /\ pc' = "writeMerged" /\ Len(chapterFiles') = 0)

\* C8: the stages are passed in the one order, none entered before the work
\* of the ones before it is finished, none left backwards: PDF capture only
\* after staging, merging, rendering, page load and the two waits, cleanup
\* only after PDF capture.
C8_LinearStages == [](StageFacts) /\ [][StageStep]_vars

\* A run that reached the last stage with images to wait for.
C8_Witness ==
    /\ pc = "done"
    /\ pendingImages # {}
    /\ Len(chapterFiles) > 0

\* C9: a stager issues no write before every one of its downloads has
\* resolved and its subdirectory is ensured, and the file named
\* files[i].name holds what files[i].downloadUrl gave.
C9_StagedByIndex ==
    \A c \in Cats :
      /\ (DOMAIN wr[c] # {} \/ DOMAIN disk[c] # {}) =>
           /\ \A j \in DOMAIN dl[c] : dl[c][j] = "done"
           /\ op[c] \in {"writing", "fulfilled", "rejected"}
           /\ subdir[c] \/ removeSt = "done"
      /\ \A i \in DOMAIN wr[c] :
           (wr[c][i] = "done" /\ removeSt # "done") =>
             /\ RemoteFile(c, i).name \in DOMAIN disk[c]
             /\ disk[c][RemoteFile(c, i).name].of = RemoteFile(c, i).downloadUrl
      /\ \A name \in DOMAIN disk[c] : disk[c][name].of = <<c, name>>

\* A stager has written two files.
C9_Witness ==
    \E c \in Cats : files[c] >= 2 /\ \A i \in 1..files[c] : i \in DOMAIN disk[c]

\* C10: the image wait is resolved exactly when every image that was
\* incomplete at the check has fired 'load' or 'error' (at once when none
\* was incomplete), and main goes on to page.pdf only when it is resolved.
C10_ImageWait ==
    /\ imgPhase = "resolved" => \A i \in pendingImages : fired[i] \in {"load", "error"}
    /\ imgPhase = "waiting" => \E i \in pendingImages : fired[i] = "none"
    /\ loadedImages = Cardinality({i \in pendingImages : fired[i] # "none"})
    /\ pc \in {"pdf", "cleanup", "done"} => imgPhase = "resolved"

\* The wait resolved after one image loaded and another failed.
C10_Witness ==
    /\ imgPhase = "resolved"
    /\ \E i, j \in pendingImages : fired[i] = "load" /\ fired[j] = "error"

====
